---------------------------- MODULE Spec2Model ----------------------------
(***************************************************************************)
(* A model of src/app.py, the text analysis tool: the four error           *)
(* detectors (check_grammar, check_punctuation, check_capitalization,      *)
(* check_sentence_formation), calculate_scores, generate_feedback and the  *)
(* button handler of main.                                                 *)
(*                                                                         *)
(* A Python str is a sequence of one-character strings.  A float is an     *)
(* exact rational [n, d] with d > 0: the scores are compared with 0, with  *)
(* their ceilings and with the tier thresholds only, and for the word      *)
(* counts of the model those comparisons come out the same in IEEE         *)
(* doubles as in exact arithmetic.                                         *)
(***************************************************************************)
EXTENDS Integers, Sequences, FiniteSets, TLC

VARIABLES
    text_input,             \* main: the text area's content
    pc,                     \* the statement of main that runs next
    grammar_errors,         \* main's locals, assigned at lines 147-168
    punctuation_errors,
    capitalization_errors,
    readability,
    formation_errors,
    scores,
    feedback,
    page,                   \* what this run of the script has rendered
    invoked,                \* the functions of app.py this run has called
    earlier                 \* one completed earlier analysis, kept for comparison

vars == <<text_input, pc, grammar_errors, punctuation_errors,
          capitalization_errors, readability, formation_errors, scores,
          feedback, page, invoked, earlier>>

locals == <<grammar_errors, punctuation_errors, capitalization_errors,
            readability, formation_errors, scores, feedback>>

\* A local that no statement has assigned yet.
Unbound == "unbound"

(***************************************************************************)
(* Characters and the str / re primitives the code uses.                   *)
(***************************************************************************)
UpperSeq == <<"A", "B", "C", "D", "E", "F", "G", "H", "I", "J", "K", "L", "M",
              "N", "O", "P", "Q", "R", "S", "T", "U", "V", "W", "X", "Y", "Z">>

LowerSeq == <<"a", "b", "c", "d", "e", "f", "g", "h", "i", "j", "k", "l", "m",
              "n", "o", "p", "q", "r", "s", "t", "u", "v", "w", "x", "y", "z">>

DigitSeq == <<"0", "1", "2", "3", "4", "5", "6", "7", "8", "9">>

Range(s) == {s[i] : i \in DOMAIN s}

SetMin(S) == CHOOSE x \in S : \A y \in S : x <= y

SetMax(S) == CHOOSE x \in S : \A y \in S : y <= x

\* the least i in lo..hi with P(i); 0 when there is none
First(lo, hi, P(_)) ==
    IF \E i \in lo..hi : P(i)
    THEN CHOOSE i \in lo..hi : P(i) /\ \A j \in lo..(i - 1) : ~P(j)
    ELSE 0

\* the greatest i in lo..hi with P(i); 0 when there is none
Last(lo, hi, P(_)) ==
    IF \E i \in lo..hi : P(i)
    THEN CHOOSE i \in lo..hi : P(i) /\ \A j \in (i + 1)..hi : ~P(j)
    ELSE 0

UpperChars == Range(UpperSeq)

LowerChars == Range(LowerSeq)

WordChars == UpperChars \cup LowerChars \cup Range(DigitSeq) \cup {"_"}

SpaceChars == {" ", "\n", "\t", "\r"}

\* str.isupper() of one character.
IsUpper(c) == c \in UpperChars

\* the class [a-z]
IsLower(c) == c \in LowerChars

\* what str.split() and str.strip() treat as whitespace
IsSpace(c) == c \in SpaceChars

\* the class \w of re
IsWordChar(c) == c \in WordChars

\* str.lower() of one character
LowerChar(c) ==
    IF IsUpper(c) THEN LowerSeq[CHOOSE k \in DOMAIN UpperSeq : UpperSeq[k] = c]
    ELSE c

\* str.lower()
PyLower(s) == [i \in DOMAIN s |-> LowerChar(s[i])]

\* len(s.split()): str.split() gives the maximal runs of non-whitespace
\* characters, and the code takes nothing of that list but its length.  A run
\* starts at every non-whitespace character that follows whitespace or
\* starts the string.
WordCount(s) ==
    Cardinality({i \in DOMAIN s :
                    ~IsSpace(s[i]) /\ (i = 1 \/ IsSpace(s[i - 1]))})

\* str.strip()
PyStrip(s) ==
    LET NonSpace(i) == ~IsSpace(s[i])
    IN  IF First(1, Len(s), NonSpace) = 0 THEN <<>>
        ELSE SubSeq(s, First(1, Len(s), NonSpace), Last(1, Len(s), NonSpace))

\* str.count(sub): the occurrences found scanning left to right, each search
\* resuming after the end of the occurrence before it.
RECURSIVE CountFrom(_, _, _)
CountFrom(t, sub, pos) ==
    LET Here(i) == SubSeq(t, i, i + Len(sub) - 1) = sub
        found == First(pos, Len(t) - Len(sub) + 1, Here)
    IN  IF found = 0 THEN 0 ELSE 1 + CountFrom(t, sub, found + Len(sub))

PyCount(t, sub) == CountFrom(t, sub, 1)

\* the class [.!?]
Terminators == {".", "!", "?"}

\* re.split(r'[.!?]', text): the pieces between the delimiters, empty ones kept.
RECURSIVE ReSplitFrom(_, _)
ReSplitFrom(t, pos) ==
    LET Cut(i) == t[i] \in Terminators
        cut == First(pos, Len(t), Cut)
    IN  IF cut = 0 THEN <<SubSeq(t, pos, Len(t))>>
        ELSE <<SubSeq(t, pos, cut - 1)>> \o ReSplitFrom(t, cut + 1)

ReSplit(t) == ReSplitFrom(t, 1)

\* [s.strip() for s in sentences if s.strip()]
RECURSIVE StripNonEmpty(_)
StripNonEmpty(ss) ==
    IF ss = <<>> THEN <<>>
    ELSE IF PyStrip(Head(ss)) # <<>>
         THEN <<PyStrip(Head(ss))>> \o StripNonEmpty(Tail(ss))
         ELSE StripNonEmpty(Tail(ss))

\* re.search(r'[.!?]$', sentence): $ is the end of the string, or the place
\* before a newline that ends the string.
SearchTerminatorAtEnd(s) ==
    \/ Len(s) >= 1 /\ s[Len(s)] \in Terminators
    \/ Len(s) >= 2 /\ s[Len(s)] = "\n" /\ s[Len(s) - 1] \in Terminators

\* \b at the place before t[i] (i = Len(t) + 1: the end of the string)
WordBoundary(t, i) ==
    LET before == i > 1 /\ IsWordChar(t[i - 1])
        after  == i <= Len(t) /\ IsWordChar(t[i])
    IN  before # after

\* re.findall scans left to right and resumes each search behind the match
\* before it.  endOf maps every place where the pattern matches to the index
\* of the last character of the match there; the result is the places of the
\* matches findall returns, in order.
RECURSIVE Scan(_, _)
Scan(endOf, pos) ==
    LET rest == {i \in DOMAIN endOf : i >= pos}
    IN  IF rest = {} THEN <<>>
        ELSE <<SetMin(rest)>> \o Scan(endOf, endOf[SetMin(rest)] + 1)

\* sum of a sequence of numbers
RECURSIVE SumSeq(_)
SumSeq(s) == IF s = <<>> THEN 0 ELSE Head(s) + SumSeq(Tail(s))

(***************************************************************************)
(* check_grammar                                                           *)
(***************************************************************************)
\* The alternatives of the four patterns, in the order the patterns list
\* them.  Every pattern is compiled with re.IGNORECASE.
PronounI == << <<"i">> >>

TheirThere == << <<"t", "h", "e", "i", "r">>, <<"t", "h", "e", "r", "e">>,
                 <<"t", "h", "e", "y", "'", "r", "e">> >>

YourYoure == << <<"y", "o", "u", "r">>, <<"y", "o", "u", "'", "r", "e">> >>

ItsIts == << <<"i", "t", "s">>, <<"i", "t", "'", "s">> >>

\* the literal w at t[i..], letter case ignored
MatchesAt(t, i, w) ==
    /\ i >= 1
    /\ i + Len(w) - 1 <= Len(t)
    /\ PyLower(SubSeq(t, i, i + Len(w) - 1)) = w

\* \b(w1|w2|...)\b tried at t[i]: the index of the last character matched, by
\* the first alternative that matches and is followed by \b; 0 when none does.
GroupEnd(t, i, alts) ==
    LET ok == {k \in DOMAIN alts :
                  MatchesAt(t, i, alts[k]) /\ WordBoundary(t, i + Len(alts[k]))}
    IN  IF ~WordBoundary(t, i) \/ ok = {} THEN 0
        ELSE i + Len(alts[SetMin(ok)]) - 1

\* len(re.findall(r'\b(w1|..)\b', text, re.IGNORECASE))
FindAllSingle(t, alts) ==
    LET at == {i \in DOMAIN t : GroupEnd(t, i, alts) # 0}
    IN  Len(Scan([i \in at |-> GroupEnd(t, i, alts)], 1))

\* \b(..)\b.*\b(..)\b tried with its first group at t[i]: the index of the last
\* character matched, 0 when there is no match.  '.' matches anything but a
\* newline and '.*' is greedy, so the second group is the last occurrence that
\* no newline separates from the first.
PairEnd(t, i, alts) ==
    LET e1 == GroupEnd(t, i, alts)
        seconds == {k \in (e1 + 1)..Len(t) :
                       /\ GroupEnd(t, k, alts) # 0
                       /\ \A j \in (e1 + 1)..(k - 1) : t[j] # "\n"}
    IN  IF e1 = 0 \/ seconds = {} THEN 0
        ELSE GroupEnd(t, SetMax(seconds), alts)

\* len(re.findall(r'\b(..)\b.*\b(..)\b', text, re.IGNORECASE))
FindAllPair(t, alts) ==
    LET at == {i \in DOMAIN t : PairEnd(t, i, alts) # 0}
    IN  Len(Scan([i \in at |-> PairEnd(t, i, alts)], 1))

\* returns the tuple (errors, [])
check_grammar(text) ==
    LET errors == FindAllSingle(text, PronounI)
                  + FindAllPair(text, TheirThere)
                  + FindAllPair(text, YourYoure)
                  + FindAllPair(text, ItsIts)
    IN  <<errors, <<>>>>

(***************************************************************************)
(* check_punctuation                                                       *)
(***************************************************************************)
\* SentenceUnits without the filter "if s.strip()": the pieces of re.split,
\* whitespace-only ones kept as they are.
SentenceUnitsUnfiltered(text) == ReSplit(text)

\* sentences = [s.strip() for s in re.split(r'[.!?]', text) if s.strip()]
SentenceUnits(text) == StripNonEmpty(ReSplit(text))

\* the loop of lines 29-32: one error for every sentence in which the search
\* for a terminator at its end finds nothing
MissingTerminators(sentences) ==
    SumSeq([k \in DOMAIN sentences |->
               IF sentences[k] # <<>> /\ ~SearchTerminatorAtEnd(sentences[k])
               THEN 1 ELSE 0])

\* text.count(",,") + text.count(" ,") + text.count(", ")
CommaErrors(text) ==
    PyCount(text, <<",", ",">>) + PyCount(text, <<" ", ",">>)
        + PyCount(text, <<",", " ">>)

check_punctuation(text) ==
    MissingTerminators(SentenceUnits(text)) + CommaErrors(text)

(***************************************************************************)
(* check_capitalization                                                    *)
(***************************************************************************)
\* UncapitalizedStarts counting lower-case letters only: a sentence that
\* starts with a digit or a symbol is passed over.
UncapitalizedLetters(sentences) ==
    SumSeq([k \in DOMAIN sentences |->
               IF sentences[k] # <<>> /\ IsLower(sentences[k][1])
               THEN 1 ELSE 0])

\* the loop of lines 47-49
UncapitalizedStarts(sentences) ==
    SumSeq([k \in DOMAIN sentences |->
               IF sentences[k] # <<>> /\ ~IsUpper(sentences[k][1])
               THEN 1 ELSE 0])

\* \b([A-Z][a-z]+)\b tried at t[i]: the index of the last character matched, 0
\* when there is no match.  [a-z]+ takes the whole run of lower-case letters;
\* giving one back leaves a letter behind the match, where \b fails.
CapWordEnd(t, i) ==
    LET run == {j \in (i + 1)..Len(t) : \A k \in (i + 1)..j : IsLower(t[k])}
    IN  IF i > Len(t) \/ ~IsUpper(t[i]) \/ ~WordBoundary(t, i) \/ run = {} THEN 0
        ELSE IF WordBoundary(t, SetMax(run) + 1) THEN SetMax(run) ELSE 0

\* re.findall(r'\b([A-Z][a-z]+)\b', text): the words matched, in order
FindCapWords(t) ==
    LET at == {i \in DOMAIN t : CapWordEnd(t, i) # 0}
        endOf == [i \in at |-> CapWordEnd(t, i)]
        found == Scan(endOf, 1)
    IN  [k \in DOMAIN found |-> SubSeq(t, found[k], endOf[found[k]])]

common_mistakes == {<<"t", "h", "e">>, <<"a", "n", "d">>, <<"o", "f">>,
                    <<"i", "n">>, <<"t", "o">>, <<"a">>, <<"a", "n">>}

\* the loop of lines 54-56
CommonWordErrors(proper_nouns) ==
    SumSeq([k \in DOMAIN proper_nouns |->
               IF PyLower(proper_nouns[k]) \in common_mistakes THEN 1 ELSE 0])

check_capitalization(text) ==
    UncapitalizedStarts(SentenceUnits(text))
        + CommonWordErrors(FindCapWords(text))

(***************************************************************************)
(* check_sentence_formation                                                *)
(***************************************************************************)
\* sum(1 for s in sentences if len(s.split()) < 3 and len(s.split()) > 0)
ShortSentences(sentences) ==
    SumSeq([k \in DOMAIN sentences |->
               IF WordCount(sentences[k]) < 3 /\ WordCount(sentences[k]) > 0
               THEN 1 ELSE 0])

\* sum(1 for s in sentences if len(s.split()) > 25)
LongSentences(sentences) ==
    SumSeq([k \in DOMAIN sentences |->
               IF WordCount(sentences[k]) > 25 THEN 1 ELSE 0])

\* textstat's flesch_reading_ease(text): a float this repository does not
\* compute and that nothing but the local readability ever holds
flesch_reading_ease(text) == "flesch_reading_ease(text)"

\* returns the tuple (readability, short_sentences + long_sentences).  The
\* sentences here are the pieces of re.split as they are, neither stripped nor
\* filtered.
check_sentence_formation(text) ==
    <<flesch_reading_ease(text),
      ShortSentences(ReSplit(text)) + LongSentences(ReSplit(text))>>

(***************************************************************************)
(* Floats, as exact rationals in lowest terms                              *)
(***************************************************************************)
RECURSIVE Gcd(_, _)
Gcd(a, b) == IF b = 0 THEN a ELSE Gcd(b, a % b)

Abs(x) == IF x < 0 THEN -x ELSE x

\* n / d, d > 0, in lowest terms
Rat(n, d) ==
    LET g == Gcd(Abs(n), d) IN [n |-> n \div g, d |-> d \div g]

Int2Rat(k) == [n |-> k, d |-> 1]

RatAdd(a, b) == Rat(a.n * b.d + b.n * a.d, a.d * b.d)

RatSub(a, b) == Rat(a.n * b.d - b.n * a.d, a.d * b.d)

RatLess(a, b) == a.n * b.d < b.n * a.d

RatLeq(a, b) == a.n * b.d <= b.n * a.d

\* a / b for b # 0; Python raises ZeroDivisionError when b is 0
RatDiv(a, b) ==
    IF b.n > 0 THEN Rat(a.n * b.d, a.d * b.n)
    ELSE Rat(-(a.n * b.d), a.d * (-b.n))

\* max(a, b) of Python: b when b > a, else a
PyMax(a, b) == IF RatLess(a, b) THEN b ELSE a

(***************************************************************************)
(* calculate_scores                                                        *)
(***************************************************************************)
GrammarCeiling == 40

OtherCeiling == 20

WordsPerUnit == 10

ScoreKeys == {"Grammar", "Punctuation", "Capitalization", "Sentence Formation",
              "Total"}

\* Divisor without the floor of max(1, ...)
DivisorUnguarded(word_count) ==
    RatDiv(Int2Rat(word_count), Int2Rat(WordsPerUnit))

\* max(1, word_count/10)
Divisor(word_count) ==
    PyMax(Int2Rat(1), RatDiv(Int2Rat(word_count), Int2Rat(WordsPerUnit)))

\* SubScore without the floor of max(0, ...)
SubScoreUnclamped(errors, ceiling, divisor) ==
    RatSub(Int2Rat(ceiling), RatDiv(Int2Rat(errors * ceiling), divisor))

\* max(0, ceiling - (errors * ceiling / divisor))
SubScore(errors, ceiling, divisor) ==
    PyMax(Int2Rat(0),
          RatSub(Int2Rat(ceiling), RatDiv(Int2Rat(errors * ceiling), divisor)))

\* whether the divisions of lines 79-82 raise ZeroDivisionError
ScoresRaise(text) == Divisor(WordCount(text)).n = 0

\* calculate_scores with line 80 reading capitalization_errors where it
\* reads punctuation_errors
calculate_scores_crossed(text, g_errors, p_errors, c_errors, f_errors) ==
    LET divisor == Divisor(WordCount(text))
        grammar_score == SubScore(g_errors, GrammarCeiling, divisor)
        punctuation_score == SubScore(c_errors, OtherCeiling, divisor)
        capitalization_score == SubScore(c_errors, OtherCeiling, divisor)
        formation_score == SubScore(f_errors, OtherCeiling, divisor)
    IN  [k \in ScoreKeys |->
            CASE k = "Grammar" -> grammar_score
              [] k = "Punctuation" -> punctuation_score
              [] k = "Capitalization" -> capitalization_score
              [] k = "Sentence Formation" -> formation_score
              [] k = "Total" ->
                   RatAdd(RatAdd(RatAdd(grammar_score, punctuation_score),
                                 capitalization_score),
                          formation_score)]

\* the dict calculate_scores returns, when no division raises
calculate_scores(text, g_errors, p_errors, c_errors, f_errors) ==
    LET word_count == WordCount(text)
        divisor == Divisor(word_count)
        grammar_score == SubScore(g_errors, GrammarCeiling, divisor)
        punctuation_score == SubScore(p_errors, OtherCeiling, divisor)
        capitalization_score == SubScore(c_errors, OtherCeiling, divisor)
        formation_score == SubScore(f_errors, OtherCeiling, divisor)
    IN  [k \in ScoreKeys |->
            CASE k = "Grammar" -> grammar_score
              [] k = "Punctuation" -> punctuation_score
              [] k = "Capitalization" -> capitalization_score
              [] k = "Sentence Formation" -> formation_score
              [] k = "Total" ->
                   RatAdd(RatAdd(RatAdd(grammar_score, punctuation_score),
                                 capitalization_score),
                          formation_score)]

(***************************************************************************)
(* generate_feedback                                                       *)
(*                                                                         *)
(* A str built from pieces is the sequence of its pieces: the literal      *)
(* texts of the code, and the digits of a formatted count.                 *)
(***************************************************************************)
GrammarHigh == 35

GrammarMid == 30

OtherHigh == 18

OtherMid == 15

\* str(n) of a non-negative int: its decimal digits
RECURSIVE PyStr(_)
PyStr(n) ==
    IF n < 10 THEN <<DigitSeq[n + 1]>>
    ELSE PyStr(n \div 10) \o <<DigitSeq[(n % 10) + 1]>>

\* sep.join(list)
RECURSIVE PyJoin(_, _)
PyJoin(sep, list) ==
    IF list = <<>> THEN <<>>
    ELSE IF Len(list) = 1 THEN list[1]
    ELSE list[1] \o <<sep>> \o PyJoin(sep, Tail(list))

\* GrammarFeedback with > where line 98 has >=
GrammarFeedbackStrict(score, errors) ==
    IF RatLess(Int2Rat(GrammarHigh), score)
    THEN <<"Excellent grammar usage.">>
    ELSE IF RatLeq(Int2Rat(GrammarMid), score)
    THEN <<"Good grammar with minor errors.">>
    ELSE <<"Grammar needs improvement (">> \o PyStr(errors)
             \o <<" errors detected).">>

\* lines 98-103
GrammarFeedback(score, errors) ==
    IF RatLeq(Int2Rat(GrammarHigh), score)
    THEN <<"Excellent grammar usage.">>
    ELSE IF RatLeq(Int2Rat(GrammarMid), score)
    THEN <<"Good grammar with minor errors.">>
    ELSE <<"Grammar needs improvement (">> \o PyStr(errors)
             \o <<" errors detected).">>

\* lines 105-110
PunctuationFeedback(score, errors) ==
    IF RatLeq(Int2Rat(OtherHigh), score)
    THEN <<"Punctuation is used correctly.">>
    ELSE IF RatLeq(Int2Rat(OtherMid), score)
    THEN <<"Generally good punctuation with some mistakes.">>
    ELSE <<"Punctuation needs work (">> \o PyStr(errors)
             \o <<" errors detected).">>

\* lines 112-117
CapitalizationFeedback(score, errors) ==
    IF RatLeq(Int2Rat(OtherHigh), score)
    THEN <<"Capitalization is properly applied.">>
    ELSE IF RatLeq(Int2Rat(OtherMid), score)
    THEN <<"Most capitalization is correct.">>
    ELSE <<"Capitalization needs attention (">> \o PyStr(errors)
             \o <<" errors detected).">>

\* lines 119-124
FormationFeedback(score, errors) ==
    IF RatLeq(Int2Rat(OtherHigh), score)
    THEN <<"Sentences are well-structured and readable.">>
    ELSE IF RatLeq(Int2Rat(OtherMid), score)
    THEN <<"Sentence formation is generally good.">>
    ELSE <<"Sentence formation could be improved (">> \o PyStr(errors)
             \o <<" issues detected).">>

generate_feedback(sc, g_errors, p_errors, c_errors, f_errors) ==
    PyJoin(" ", << GrammarFeedback(sc["Grammar"], g_errors),
                   PunctuationFeedback(sc["Punctuation"], p_errors),
                   CapitalizationFeedback(sc["Capitalization"], c_errors),
                   FormationFeedback(sc["Sentence Formation"], f_errors) >>)

(***************************************************************************)
(* The inputs of the model                                                 *)
(***************************************************************************)
\* The longest text typed from Fragments, in fragments.
MaxFrags == 3

\* The largest error count handed to calculate_scores directly.
MaxErr == 2

\* The texts handed to calculate_scores directly are MaxBlocks blocks of
\* twenty words at most, then MaxExtra single words at most.
MaxBlocks == 5

MaxExtra == 1

\* The texts of repeated calls of calculate_scores are MaxDozens blocks of
\* twelve words at most.
MaxDozens == 1

\* The texts typed into the text area are up to MainSlack words short of or
\* beyond the minimum of main.
MainSlack == 1

RECURSIVE Flatten(_)
Flatten(ss) == IF ss = <<>> THEN <<>> ELSE Head(ss) \o Flatten(Tail(ss))

RECURSIVE Repeat(_, _)
Repeat(s, n) == IF n = 0 THEN <<>> ELSE s \o Repeat(s, n - 1)

Fragments == {<<" ">>, <<"\n">>, <<".">>, <<",">>, <<"T", "h", "e">>, <<"A">>,
              <<"i">>, <<"i", "t", "s">>, <<"7">>, <<"@">>}

FragmentTexts ==
    {Flatten(fs) : fs \in UNION {[1..n -> Fragments] : n \in 0..MaxFrags}}

ScenarioA == Repeat(<<"t", "e", "s", "t", " ">>, 60)

ScenarioB ==
    <<"I", " ", "w", "e", "n", "t", " ", "t", "o", " ", "t", "h", "e", " ",
      "s", "t", "o", "r", "e", ".", " ", "S", "h", "e", " ", "b", "o", "u",
      "g", "h", "t", " ", "m", "i", "l", "k", ".", " ", "H", "e", " ", "c",
      "a", "m", "e", " ", "h", "o", "m", "e", ".">>

ScenarioC ==
    <<"t", "h", "e", "i", "r", " ", "h", "o", "u", "s", "e", " ", "t", "h",
      "e", "i", "r", " ", "c", "a", "r">>

\* ten words and no terminator
ScenarioD == Repeat(<<"O", "n", "e", " ">>, 9) \o <<"e", "n", "d">>

\* the three terminators, and a terminator before a newline
ScenarioE ==
    <<"I", "s", " ", "i", "t", "?", " ", "Y", "e", "s", "!", " ", "a", " ",
      ",", "b", ",", ",", ",", " ", "A", "n", " ", "e", "n", "d", ".", "\n">>

ScenarioTexts == {ScenarioA, ScenarioB, ScenarioC, ScenarioD, ScenarioE}

DetectorTexts == FragmentTexts \cup ScenarioTexts

Block == Repeat(<<"w", " ">>, 20)

ScoreTexts ==
    {Repeat(Block, a) \o Repeat(<<"w", "\n">>, b) :
        a \in 0..MaxBlocks, b \in 0..MaxExtra}

\* texts of 0, 12, 24, ... words, each word count in two spellings
RepeatTexts ==
    {Repeat(u, 12 * n) : u \in {<<"w", " ">>, <<"i", "\n">>}, n \in 0..MaxDozens}

ErrorCounts == 0..MaxErr

MinWords == 50

MainUnits == {<<"i", " ">>, <<"A", "n", ".", " ">>}

MainTexts ==
    {<<>>} \cup
    {Repeat(u, n) :
        u \in MainUnits, n \in (MinWords - MainSlack)..(MinWords + MainSlack)}

(***************************************************************************)
(* main                                                                    *)
(***************************************************************************)
NoAnalysis == [known |-> FALSE]

\* lines 129-138: what every run of the script renders before the button
PageTop == <<"title", "write", "header", "text_area", "button">>

\* A local keeps the value of its last assignment: a run of main assigns each
\* of them before it reads it.
InitLocals ==
    /\ grammar_errors = Unbound
    /\ punctuation_errors = Unbound
    /\ capitalization_errors = Unbound
    /\ readability = Unbound
    /\ formation_errors = Unbound
    /\ scores = Unbound
    /\ feedback = Unbound

\* The script has run once, the text area is empty, nothing was pressed.
Init ==
    /\ text_input = <<>>
    /\ pc = "idle"
    /\ InitLocals
    /\ page = PageTop
    /\ invoked = {}
    /\ earlier = NoAnalysis

\* A run of the script in which st.button returns False: the text area holds
\* t and the block of line 138 is skipped.
Rerun(t) ==
    /\ pc = "idle"
    /\ text_input' = t
    /\ page' = PageTop
    /\ invoked' = {}
    /\ UNCHANGED <<pc, locals, earlier>>

\* PressAnalyze with the comparison of line 141 off by one
PressAnalyzeOffByOne(t) ==
    /\ pc = "idle"
    /\ text_input' = t
    /\ invoked' = {}
    /\ LET word_count == WordCount(t)
       IN  \/ /\ word_count < MinWords - 1
              /\ page' = Append(PageTop, "error")
              /\ pc' = "idle"
              /\ UNCHANGED earlier
           \/ /\ ~(word_count < MinWords - 1)
              /\ page' = PageTop
              /\ pc' = "grammar"
              /\ earlier' = IF earlier.known
                            THEN [earlier EXCEPT !.again = TRUE,
                                                 !.between = @ \/ t # earlier.text]
                            ELSE earlier
    /\ UNCHANGED locals

\* lines 138-145: the run in which st.button returns True, the text area
\* holding t.
PressAnalyze(t) ==
    /\ pc = "idle"
    /\ text_input' = t
    /\ invoked' = {}
    /\ LET word_count == WordCount(t)
       IN  \/ /\ word_count < MinWords
              /\ page' = Append(PageTop, "error")
              /\ pc' = "idle"
              /\ UNCHANGED earlier
           \/ /\ ~(word_count < MinWords)
              /\ page' = PageTop
              /\ pc' = "grammar"
              /\ earlier' = IF earlier.known
                            THEN [earlier EXCEPT !.again = TRUE,
                                                 !.between = @ \/ t # earlier.text]
                            ELSE earlier
    /\ UNCHANGED locals

\* line 147
CheckGrammar ==
    /\ pc = "grammar"
    /\ grammar_errors' = check_grammar(text_input)[1]
    /\ invoked' = invoked \cup {"check_grammar"}
    /\ pc' = "punctuation"
    /\ UNCHANGED <<text_input, punctuation_errors, capitalization_errors,
                   readability, formation_errors, scores, feedback, page,
                   earlier>>

\* CheckPunctuation adding to the count the analysis before it left behind,
\* as a counter kept outside main would
CheckPunctuationAccumulating ==
    /\ pc = "punctuation"
    /\ punctuation_errors' =
           check_punctuation(text_input)
               + (IF readability = Unbound THEN 0 ELSE punctuation_errors)
    /\ invoked' = invoked \cup {"check_punctuation"}
    /\ pc' = "capitalization"
    /\ UNCHANGED <<text_input, grammar_errors, capitalization_errors,
                   readability, formation_errors, scores, feedback, page,
                   earlier>>

\* line 148
CheckPunctuation ==
    /\ pc = "punctuation"
    /\ punctuation_errors' = check_punctuation(text_input)
    /\ invoked' = invoked \cup {"check_punctuation"}
    /\ pc' = "capitalization"
    /\ UNCHANGED <<text_input, grammar_errors, capitalization_errors,
                   readability, formation_errors, scores, feedback, page,
                   earlier>>

\* line 149
CheckCapitalization ==
    /\ pc = "capitalization"
    /\ capitalization_errors' = check_capitalization(text_input)
    /\ invoked' = invoked \cup {"check_capitalization"}
    /\ pc' = "formation"
    /\ UNCHANGED <<text_input, grammar_errors, punctuation_errors,
                   readability, formation_errors, scores, feedback, page,
                   earlier>>

\* line 150
CheckSentenceFormation ==
    /\ pc = "formation"
    /\ readability' = check_sentence_formation(text_input)[1]
    /\ formation_errors' = check_sentence_formation(text_input)[2]
    /\ invoked' = invoked \cup {"check_sentence_formation"}
    /\ pc' = "scores"
    /\ UNCHANGED <<text_input, grammar_errors, punctuation_errors,
                   capitalization_errors, scores, feedback, page, earlier>>

\* lines 153-159; an exception ends the run before scores is assigned
CalculateScores ==
    /\ pc = "scores"
    /\ scores' = IF ScoresRaise(text_input) THEN scores
                 ELSE calculate_scores(text_input, grammar_errors,
                                       punctuation_errors,
                                       capitalization_errors, formation_errors)
    /\ invoked' = invoked \cup {"calculate_scores"}
    /\ pc' = IF ScoresRaise(text_input) THEN "raised" ELSE "feedback"
    /\ UNCHANGED <<text_input, grammar_errors, punctuation_errors,
                   capitalization_errors, readability, formation_errors,
                   feedback, page, earlier>>

\* lines 162-168
GenerateFeedback ==
    /\ pc = "feedback"
    /\ feedback' = generate_feedback(scores, grammar_errors,
                                     punctuation_errors, capitalization_errors,
                                     formation_errors)
    /\ invoked' = invoked \cup {"generate_feedback"}
    /\ pc' = "display"
    /\ UNCHANGED <<text_input, grammar_errors, punctuation_errors,
                   capitalization_errors, readability, formation_errors,
                   scores, page, earlier>>

\* lines 171-213: the results are rendered and the run ends.  The page holds
\* which widget shows which value; how a value is formatted is not modelled.
Display ==
    /\ pc = "display"
    /\ page' = page \o <<"success",
                         <<"metric", "Total Score", scores["Total"]>>,
                         <<"metric", "Grammar", scores["Grammar"]>>,
                         <<"metric", "Punctuation", scores["Punctuation"]>>,
                         <<"metric", "Capitalization", scores["Capitalization"]>>,
                         <<"metric", "Sentence Formation",
                           scores["Sentence Formation"]>>,
                         "pyplot",
                         <<"info", feedback>> >>
    /\ pc' = "idle"
    /\ UNCHANGED <<text_input, locals, invoked, earlier>>

\* Bookkeeping, not code: the analysis that has just completed is the one
\* later analyses are compared with.
Remember ==
    /\ pc = "display"
    /\ ~earlier.known
    /\ earlier' = [known |-> TRUE, text |-> text_input, scores |-> scores,
                   feedback |-> feedback, again |-> FALSE, between |-> FALSE]
    /\ UNCHANGED <<text_input, pc, locals, page, invoked>>

Pipeline ==
    \/ CheckGrammar
    \/ CheckPunctuation
    \/ CheckCapitalization
    \/ CheckSentenceFormation
    \/ CalculateScores
    \/ GenerateFeedback

Next ==
    \/ \E t \in MainTexts : Rerun(t)
    \/ \E t \in MainTexts : PressAnalyze(t)
    \/ Pipeline
    \/ Display
    \/ Remember

\* The script of the application, driven by its user.
Spec == Init /\ [][Next]_vars

(***************************************************************************)
(* The core called directly: the statements of lines 147-168 on a text no  *)
(* validation has seen.                                                    *)
(***************************************************************************)
InitAnalyze ==
    /\ text_input \in DetectorTexts
    /\ pc = "grammar"
    /\ InitLocals
    /\ page = <<>>
    /\ invoked = {}
    /\ earlier = NoAnalysis

SpecAnalyze == InitAnalyze /\ [][Pipeline]_vars

(***************************************************************************)
(* calculate_scores and generate_feedback called directly, with any error  *)
(* counts.                                                                 *)
(***************************************************************************)
InitScores ==
    /\ text_input \in ScoreTexts
    /\ pc = "scores"
    /\ grammar_errors \in ErrorCounts
    /\ punctuation_errors \in ErrorCounts
    /\ capitalization_errors \in ErrorCounts
    /\ formation_errors \in ErrorCounts
    /\ readability = Unbound
    /\ scores = Unbound
    /\ feedback = Unbound
    /\ page = <<>>
    /\ invoked = {}
    /\ earlier = NoAnalysis

NextScores == CalculateScores \/ GenerateFeedback

SpecScores == InitScores /\ [][NextScores]_vars

(***************************************************************************)
(* calculate_scores called again and again: each call after the first is   *)
(* given either another text and the same error counts, or a text of as    *)
(* many words and the same error counts but one.                           *)
(***************************************************************************)
Categories == {"Grammar", "Punctuation", "Capitalization", "Sentence Formation"}

ErrorsOf(k) ==
    CASE k = "Grammar" -> grammar_errors
      [] k = "Punctuation" -> punctuation_errors
      [] k = "Capitalization" -> capitalization_errors
      [] k = "Sentence Formation" -> formation_errors

InitRepeat ==
    /\ text_input \in RepeatTexts
    /\ pc = "scores"
    /\ grammar_errors \in ErrorCounts
    /\ punctuation_errors \in ErrorCounts
    /\ capitalization_errors \in ErrorCounts
    /\ formation_errors \in ErrorCounts
    /\ readability = Unbound
    /\ scores = Unbound
    /\ feedback = Unbound
    /\ page = <<>>
    /\ invoked = {}
    /\ earlier = NoAnalysis

\* Another call of calculate_scores, with as many words and one error count
\* replaced.  What earlier holds is bookkeeping, not code: whether the call
\* raised the error count, and whether that score came out lower.
CalculateAgain(t, cat, e) ==
    /\ pc = "feedback"
    /\ WordCount(t) = WordCount(text_input)
    /\ text_input' = t
    /\ grammar_errors' = IF cat = "Grammar" THEN e ELSE grammar_errors
    /\ punctuation_errors' = IF cat = "Punctuation" THEN e ELSE punctuation_errors
    /\ capitalization_errors' =
           IF cat = "Capitalization" THEN e ELSE capitalization_errors
    /\ formation_errors' = IF cat = "Sentence Formation" THEN e ELSE formation_errors
    /\ scores' = calculate_scores(t, grammar_errors', punctuation_errors',
                                  capitalization_errors', formation_errors')
    /\ earlier' = [known |-> TRUE,
                   raised |-> e > ErrorsOf(cat),
                   lowered |-> RatLess(scores'[cat], scores[cat])]
    /\ UNCHANGED <<pc, readability, feedback, page, invoked>>

\* Another call of calculate_scores, with another text.
CalculateOther(t) ==
    /\ pc = "feedback"
    /\ text_input' = t
    /\ scores' = calculate_scores(t, grammar_errors, punctuation_errors,
                                  capitalization_errors, formation_errors)
    /\ earlier' = NoAnalysis
    /\ UNCHANGED <<pc, grammar_errors, punctuation_errors,
                   capitalization_errors, formation_errors, readability,
                   feedback, page, invoked>>

NextRepeat ==
    \/ CalculateScores
    \/ \E t \in RepeatTexts, cat \in Categories, e \in ErrorCounts :
          CalculateAgain(t, cat, e)
    \/ \E t \in RepeatTexts : CalculateOther(t)

SpecRepeat == InitRepeat /\ [][NextRepeat]_vars

(***************************************************************************)
(* Properties                                                              *)
(***************************************************************************)
Called(f) == f \in invoked

Score(k) == scores[k]

Within(lo, x, hi) == RatLeq(Int2Rat(lo), x) /\ RatLeq(x, Int2Rat(hi))

\* C1: whatever the text and the non-negative error counts, the dict that
\* calculate_scores returns has Grammar in [0, 40], each of Punctuation,
\* Capitalization and Sentence Formation in [0, 20], and Total in [0, 100].
ScoresWithinCeilings ==
    Called("calculate_scores") /\ pc # "raised" =>
        /\ Within(0, Score("Grammar"), 40)
        /\ Within(0, Score("Punctuation"), 20)
        /\ Within(0, Score("Capitalization"), 20)
        /\ Within(0, Score("Sentence Formation"), 20)
        /\ Within(0, Score("Total"), 100)

\* calculate_scores has returned for a one-word text and two grammar errors:
\* 40 - 80 is floored at 0 while the other three sub-scores are at 20.
ScoresFlooredReached ==
    /\ pc = "feedback"
    /\ WordCount(text_input) = 1
    /\ grammar_errors = 2
    /\ Score("Grammar") = Int2Rat(0)
    /\ Score("Total") = Int2Rat(60)

SameWordCount == WordCount(text_input') = WordCount(text_input)

OthersKept(cat) == \A k \in Categories \ {cat} : ErrorsOf(k)' = ErrorsOf(k)

\* Two consecutive calls of calculate_scores whose texts have the same word
\* count and whose error counts are the same in every category but cat.
MonotoneIn(cat) ==
    pc = "feedback" /\ pc' = "feedback" /\ SameWordCount /\ OthersKept(cat) =>
        /\ ErrorsOf(cat)' >= ErrorsOf(cat) => RatLeq(Score(cat)', Score(cat))
        /\ ErrorsOf(cat)' <= ErrorsOf(cat) => RatLeq(Score(cat), Score(cat)')
        /\ \A k \in Categories \ {cat} : Score(k)' = Score(k)

\* C2: of two calls of calculate_scores on texts of the same word count whose
\* error counts differ in one category only, the call with the larger count
\* returns a score for that category that is less than or equal to the other
\* call's, and the other three sub-scores are equal.
ScoresMonotone == [][\A cat \in Categories : MonotoneIn(cat)]_vars

\* A second call has raised one error count and that category's score has
\* come out strictly lower.
RaisedAndLoweredReached ==
    earlier.known /\ earlier.raised /\ earlier.lowered

ShortText == WordCount(text_input) < 50

NothingAnalysed ==
    /\ pc = "idle"
    /\ invoked = {}
    /\ page \in {PageTop, Append(PageTop, "error")}

\* C3: when the button is pressed with a text of fewer than 50 words, main
\* reports an error and returns: no detector, calculate_scores or
\* generate_feedback is invoked and no score is displayed.  The pipeline runs
\* only for texts of 50 words or more.
ShortTextRejected ==
    /\ [](ShortText => NothingAnalysed)
    /\ [][(\E t \in MainTexts : PressAnalyze(t)) /\ ShortText' =>
              page' = Append(PageTop, "error") /\ UNCHANGED locals]_vars

\* The button was pressed with 49 words: the page shows the error and nothing
\* was invoked.
ShortTextRejectedReached ==
    /\ WordCount(text_input) = 49
    /\ page = Append(PageTop, "error")
    /\ pc = "idle"
    /\ invoked = {}

\* C4: running the pipeline twice on identical text yields identical scores
\* and an identical feedback string, whatever other texts were analysed before
\* or between the two runs.
AnalysisIdempotent ==
    pc = "display" /\ earlier.known /\ earlier.text = text_input =>
        scores = earlier.scores /\ feedback = earlier.feedback

\* A later run has completed on the text of the remembered analysis, after a
\* run on another text in between.
AnalysedAgainReached ==
    /\ pc = "display"
    /\ earlier.known
    /\ earlier.again
    /\ earlier.between
    /\ earlier.text = text_input
    /\ text_input # <<>>

\* C5: for the text "I went to the store. She bought milk. He came home."
\* check_punctuation returns 0 and check_capitalization returns 0.
ScenarioBClean ==
    text_input = ScenarioB /\ Called("check_capitalization") =>
        punctuation_errors = 0 /\ capitalization_errors = 0

\* A character that is neither whitespace nor one of . ! ?
Ordinary(c) == ~IsSpace(c) /\ c \notin Terminators

\* The places where a unit begins: an ordinary character with nothing but
\* whitespace between it and the terminator before it, or the start of the
\* text.  Every unit that is non-empty after trimming begins at one place.
UnitStarts(t) ==
    {i \in DOMAIN t :
        /\ Ordinary(t[i])
        /\ LET NonSpace(j) == ~IsSpace(t[j])
               before == Last(1, i - 1, NonSpace)
           IN  before = 0 \/ t[before] \in Terminators}

\* the occurrences of the two-character substring a b, a # b
Occurrences(t, a, b) ==
    Cardinality({i \in 1..(Len(t) - 1) : t[i] = a /\ t[i + 1] = b})

\* the occurrences of ",,", none sharing a comma with another: in a run of
\* commas, those that begin an even number of commas into the run
DoubledCommas(t) ==
    Cardinality({i \in 1..(Len(t) - 1) :
        /\ t[i] = "," /\ t[i + 1] = ","
        /\ Cardinality({j \in 1..(i - 1) :
               \A k \in j..(i - 1) : t[k] = ","}) % 2 = 0})

Blank(t) == \A i \in DOMAIN t : IsSpace(t[i])

\* C7: for an empty or whitespace-only text the word count is 0, the divisor
\* is 1, splitting yields no non-empty unit, the four detectors count 0, and
\* calculate_scores returns 40, 20, 20, 20 and Total 100 without a division
\* error.
BlankTextSaturates ==
    Blank(text_input) =>
        /\ WordCount(text_input) = 0
        /\ Divisor(WordCount(text_input)) = Int2Rat(1)
        /\ SentenceUnits(text_input) = <<>>
        /\ Called("check_grammar") => grammar_errors = 0
        /\ Called("check_punctuation") => punctuation_errors = 0
        /\ Called("check_capitalization") => capitalization_errors = 0
        /\ Called("check_sentence_formation") => formation_errors = 0
        /\ pc # "raised"
        /\ Called("calculate_scores") =>
               /\ Score("Grammar") = Int2Rat(40)
               /\ Score("Punctuation") = Int2Rat(20)
               /\ Score("Capitalization") = Int2Rat(20)
               /\ Score("Sentence Formation") = Int2Rat(20)
               /\ Score("Total") = Int2Rat(100)

\* The pipeline has completed on a text of three whitespace characters.
BlankTextSaturatesReached ==
    /\ text_input = <<" ", "\n", " ">>
    /\ pc = "display"
    /\ Score("Total") = Int2Rat(100)

\* The tier of a score, by the three ranges of a category.
TierOf(score, high, mid) ==
    CHOOSE tier \in {"high", "mid", "low"} :
        /\ tier = "high" <=> RatLeq(Int2Rat(high), score)
        /\ tier = "mid" <=>
               RatLeq(Int2Rat(mid), score) /\ RatLess(score, Int2Rat(high))
        /\ tier = "low" <=> RatLess(score, Int2Rat(mid))

\* The sentence of a category in a tier; the low tier's holds the count.
TierSentence(cat, tier, errors) ==
    CASE cat = "Grammar" /\ tier = "high" -> <<"Excellent grammar usage.">>
      [] cat = "Grammar" /\ tier = "mid" ->
             <<"Good grammar with minor errors.">>
      [] cat = "Grammar" /\ tier = "low" ->
             <<"Grammar needs improvement (">> \o PyStr(errors)
                 \o <<" errors detected).">>
      [] cat = "Punctuation" /\ tier = "high" ->
             <<"Punctuation is used correctly.">>
      [] cat = "Punctuation" /\ tier = "mid" ->
             <<"Generally good punctuation with some mistakes.">>
      [] cat = "Punctuation" /\ tier = "low" ->
             <<"Punctuation needs work (">> \o PyStr(errors)
                 \o <<" errors detected).">>
      [] cat = "Capitalization" /\ tier = "high" ->
             <<"Capitalization is properly applied.">>
      [] cat = "Capitalization" /\ tier = "mid" ->
             <<"Most capitalization is correct.">>
      [] cat = "Capitalization" /\ tier = "low" ->
             <<"Capitalization needs attention (">> \o PyStr(errors)
                 \o <<" errors detected).">>
      [] cat = "Sentence Formation" /\ tier = "high" ->
             <<"Sentences are well-structured and readable.">>
      [] cat = "Sentence Formation" /\ tier = "mid" ->
             <<"Sentence formation is generally good.">>
      [] cat = "Sentence Formation" /\ tier = "low" ->
             <<"Sentence formation could be improved (">> \o PyStr(errors)
                 \o <<" issues detected).">>

ExpectedSentence(cat) ==
    TierSentence(cat,
                 TierOf(Score(cat), IF cat = "Grammar" THEN 35 ELSE 18,
                        IF cat = "Grammar" THEN 30 ELSE 15),
                 ErrorsOf(cat))

\* C8: generate_feedback returns four sentences, for Grammar, Punctuation,
\* Capitalization and Sentence Formation in that order, joined by single
\* spaces.  Each is the sentence of its category's tier (Grammar: high from
\* 35, mid from 30, low below; the others: high from 18, mid from 15, low
\* below), and holds the category's error count exactly when the tier is low.
FeedbackTiers ==
    Called("generate_feedback") =>
        feedback = ExpectedSentence("Grammar") \o <<" ">>
                       \o ExpectedSentence("Punctuation") \o <<" ">>
                       \o ExpectedSentence("Capitalization") \o <<" ">>
                       \o ExpectedSentence("Sentence Formation")

\* generate_feedback has returned for a Grammar score of exactly 30 and a
\* Punctuation score of exactly 15 (both mid), a Capitalization score of 10
\* (low) and a Sentence Formation score of 20 (high).
FeedbackTiersReached ==
    /\ Called("generate_feedback")
    /\ Score("Grammar") = Int2Rat(30)
    /\ Score("Punctuation") = Int2Rat(15)
    /\ Score("Capitalization") = Int2Rat(10)
    /\ Score("Sentence Formation") = Int2Rat(20)
    /\ capitalization_errors = 2

\* A text of number tokens only, or of symbol tokens only.
NumbersOnly(t) ==
    /\ \E i \in DOMAIN t : ~IsSpace(t[i])
    /\ \A i \in DOMAIN t : IsSpace(t[i]) \/ t[i] \in Range(DigitSeq)

SymbolsOnly(t) ==
    /\ \E i \in DOMAIN t : ~IsSpace(t[i])
    /\ \A i \in DOMAIN t : IsSpace(t[i]) \/ ~IsWordChar(t[i])

NonText(t) == NumbersOnly(t) \/ SymbolsOnly(t)

AllAtCeiling ==
    /\ Score("Grammar") = Int2Rat(40)
    /\ Score("Punctuation") = Int2Rat(20)
    /\ Score("Capitalization") = Int2Rat(20)
    /\ Score("Sentence Formation") = Int2Rat(20)

\* C9, as the spec states it: for a text of number tokens only or of symbol
\* tokens only the detectors complete and every sub-score is at its ceiling.
NonTextMaximal ==
    NonText(text_input) /\ Called("calculate_scores") =>
        pc # "raised" /\ AllAtCeiling

\* C9, amended: for a text of number tokens only or of symbol tokens only the
\* pipeline completes without a division error, check_grammar counts 0 and
\* Grammar is 40.  Every sub-score is at its ceiling exactly when the text has
\* no unit, that is, when it holds nothing but . ! ? and whitespace; when it
\* has a unit, check_punctuation and check_capitalization each count at least
\* 1 and Punctuation and Capitalization are below 20.
NonTextScores ==
    NonText(text_input) =>
        /\ pc # "raised"
        /\ Called("check_grammar") => grammar_errors = 0
        /\ Called("calculate_scores") =>
               /\ Score("Grammar") = Int2Rat(40)
               /\ AllAtCeiling <=> UnitStarts(text_input) = {}
               /\ UnitStarts(text_input) # {} =>
                      /\ punctuation_errors >= 1
                      /\ capitalization_errors >= 1
                      /\ RatLess(Score("Punctuation"), Int2Rat(20))
                      /\ RatLess(Score("Capitalization"), Int2Rat(20))

\* The pipeline has completed on "7 7": Punctuation and Capitalization are 0.
NonTextScoresReached ==
    /\ text_input = <<"7", " ", "7">>
    /\ pc = "display"
    /\ Score("Punctuation") = Int2Rat(0)
    /\ Score("Capitalization") = Int2Rat(0)

FunctionWords == {<<"t", "h", "e">>, <<"a", "n", "d">>, <<"o", "f">>,
                  <<"i", "n">>, <<"t", "o">>, <<"a">>, <<"a", "n">>}

\* the last character of the token that begins at t[i]
TokenEnd(t, i) ==
    LET NotWord(j) == ~IsWordChar(t[j])
        stop == First(i, Len(t), NotWord)
    IN  IF stop = 0 THEN Len(t) ELSE stop - 1

\* The places where a token of capitalized-word shape begins: the first
\* letter upper-case and the rest, if any, lower-case.
CapitalizedTokens(t) ==
    {i \in DOMAIN t :
        /\ IsUpper(t[i])
        /\ i = 1 \/ ~IsWordChar(t[i - 1])
        /\ \A j \in (i + 1)..TokenEnd(t, i) : IsLower(t[j])}

\* C10: check_capitalization returns the number of units whose first
\* character is not upper-case plus the number of tokens of capitalized-word
\* shape whose lower-case form is one of the, and, of, in, to, a, an: each of
\* the seven, capitalized anywhere in the text, adds 1.
CapitalizationCount ==
    Called("check_capitalization") =>
        capitalization_errors =
            Cardinality({i \in UnitStarts(text_input) : ~IsUpper(text_input[i])})
                + Cardinality({i \in CapitalizedTokens(text_input) :
                      PyLower(SubSeq(text_input, i, TokenEnd(text_input, i)))
                          \in FunctionWords})

=============================================================================
